---------------------------- MODULE Spec2Model ----------------------------
(***************************************************************************)
(* The incremental line-delimited JSON reassembler of src/src/main.rs:     *)
(* parse_line_bufferd, is_valid_json and the drain loop of handler.        *)
(*                                                                         *)
(* Text is a TLA+ string over printable ASCII plus tab, CR and LF; a       *)
(* position is a 1-based index into it.  The scanners return the position  *)
(* following what they consumed, or 0 when the text is rejected.           *)
(***************************************************************************)
EXTENDS Naturals, Integers, Sequences, FiniteSets, TLC

(***************************************************************************)
(* Text helpers                                                            *)
(***************************************************************************)
\* The character at position i, "" past either end (end of input).
Ch(s, i) == IF i >= 1 /\ i <= Len(s) THEN SubSeq(s, i, i) ELSE ""

\* The text from position i to j inclusive, cut at the end of s.
Slice(s, i, j) == SubSeq(s, i, IF j <= Len(s) THEN j ELSE Len(s))

Digits == {"0", "1", "2", "3", "4", "5", "6", "7", "8", "9"}

HexDigits == Digits \cup {"a", "b", "c", "d", "e", "f", "A", "B", "C", "D", "E", "F"}

\* JSON whitespace as serde_json's parse_whitespace skips it.
IsWs(c) == c \in {" ", "\t", "\n", "\r"}

\* A raw control character, which no JSON string may hold unescaped.
IsControl(c) == c \in {"\t", "\n", "\r"}

RECURSIVE SkipWs(_, _)
SkipWs(s, i) == IF IsWs(Ch(s, i)) THEN SkipWs(s, i + 1) ELSE i

RECURSIVE SkipDigits(_, _)
SkipDigits(s, i) == IF Ch(s, i) \in Digits THEN SkipDigits(s, i + 1) ELSE i

(***************************************************************************)
(* from_str::<IgnoredAny>: serde_json's syntax-only scan of one JSON value *)
(* (ignore_value).  A scanner returns the position after what it consumed, *)
(* 0 when it rejects the text with an error of category syntax and -1 when *)
(* it rejects it with one of category eof (the text ended too early); it   *)
(* passes on, as it is, a rejection its predecessor has handed it.         *)
(***************************************************************************)
\* At least one digit at i (InvalidNumber when there is none, also at the
\* end of the text).
SkipDigits1(s, i) == IF Ch(s, i) \in Digits THEN SkipDigits(s, i + 1) ELSE 0

\* ignore_integer: a single 0, or a digit 1-9 and more digits.
SkipInteger(s, a) ==
  IF Ch(s, a) = "0" THEN (IF Ch(s, a + 1) \in Digits THEN 0 ELSE a + 1)
  ELSE SkipDigits1(s, a)

\* ignore_decimal: a fraction, if a point follows the integer ending at b.
SkipFraction(s, b) ==
  IF b = 0 THEN 0
  ELSE IF Ch(s, b) = "." THEN SkipDigits1(s, b + 1)
  ELSE b

\* ignore_exponent: an exponent, if e or E follows the mantissa ending at c.
SkipExponent(s, c) ==
  IF c = 0 THEN 0
  ELSE IF Ch(s, c) \in {"e", "E"}
    THEN SkipDigits1(s, IF Ch(s, c + 1) \in {"+", "-"} THEN c + 2 ELSE c + 1)
  ELSE c

\* A number starting at i (at its '-' or first digit).
SkipNumber(s, i) ==
  SkipExponent(s, SkipFraction(s, SkipInteger(s, IF Ch(s, i) = "-" THEN i + 1 ELSE i)))

\* w is longer than t and starts with it.
IsProperPrefix(t, w) == Len(t) < Len(w) /\ t = SubSeq(w, 1, Len(t))

\* parse_ident: the word w (null, true, false) at i: the text ending inside
\* the word is an error of category eof, another letter one of syntax.
SkipIdent(s, i, w) ==
  IF Slice(s, i, i + Len(w) - 1) = w THEN i + Len(w)
  ELSE IF IsProperPrefix(Slice(s, i, i + Len(w) - 1), w) THEN -1
  ELSE 0

\* Four hex digits at i..i+3.
IsHex4(s, i) == \A k \in 0..3 : Ch(s, i + k) \in HexDigits

\* decode_hex_escape at i, before the scan goes on at i+4: fewer than four
\* characters left is eof, four that are not all hex digits is syntax, and
\* 1 stands for four hex digits.
HexEscape(s, i) ==
  IF i + 3 > Len(s) THEN -1
  ELSE IF IsHex4(s, i) THEN 1
  ELSE 0

\* ignore_str: a string body starting at i, the position after the opening
\* quote; the result is the position after the closing quote.  An escape is
\* checked for its form only (a \u escape for four hex digits, not for its
\* code point).
RECURSIVE SkipStr(_, _)
SkipStr(s, i) ==
  IF Ch(s, i) = "" THEN -1
  ELSE IF Ch(s, i) = "\"" THEN i + 1
  ELSE IF Ch(s, i) = "\\"
    THEN (IF Ch(s, i + 1) = "" THEN -1
          ELSE IF Ch(s, i + 1) \in {"\"", "\\", "/", "b", "f", "n", "r", "t"}
            THEN SkipStr(s, i + 2)
          ELSE IF Ch(s, i + 1) # "u" THEN 0
          ELSE IF HexEscape(s, i + 2) = 1 THEN SkipStr(s, i + 6)
          ELSE HexEscape(s, i + 2))
  ELSE IF IsControl(Ch(s, i)) THEN 0
  ELSE SkipStr(s, i + 1)

RECURSIVE SkipValue(_, _), ValueAt(_, _), SkipElems(_, _), AfterElem(_, _),
          SkipMembers(_, _), MemberColon(_, _), AfterMember(_, _)
\* One JSON value after optional whitespace at i.
SkipValue(s, i) == ValueAt(s, SkipWs(s, i))

\* The value whose first character is at i.
ValueAt(s, i) ==
  IF Ch(s, i) = "" THEN -1
  ELSE IF Ch(s, i) = "n" THEN SkipIdent(s, i, "null")
  ELSE IF Ch(s, i) = "t" THEN SkipIdent(s, i, "true")
  ELSE IF Ch(s, i) = "f" THEN SkipIdent(s, i, "false")
  ELSE IF Ch(s, i) = "-" \/ Ch(s, i) \in Digits THEN SkipNumber(s, i)
  ELSE IF Ch(s, i) = "\"" THEN SkipStr(s, i + 1)
  ELSE IF Ch(s, i) = "[" THEN SkipElems(s, SkipWs(s, i + 1))
  ELSE IF Ch(s, i) = "{" THEN SkipMembers(s, SkipWs(s, i + 1))
  ELSE 0

\* An array from its first element, or its closing bracket, at i.
SkipElems(s, i) ==
  IF Ch(s, i) = "" THEN -1
  ELSE IF Ch(s, i) = "]" THEN i + 1
  ELSE AfterElem(s, SkipWs(s, SkipValue(s, i)))

\* What follows an element that ended before j: a comma and another element,
\* or the closing bracket.
AfterElem(s, j) ==
  IF j <= 0 THEN j
  ELSE IF Ch(s, j) = "" THEN -1
  ELSE IF Ch(s, j) = "," THEN AfterElem(s, SkipWs(s, SkipValue(s, j + 1)))
  ELSE IF Ch(s, j) = "]" THEN j + 1
  ELSE 0

\* An object from its first key, or its closing brace, at i.
SkipMembers(s, i) ==
  IF Ch(s, i) = "" THEN -1
  ELSE IF Ch(s, i) = "}" THEN i + 1
  ELSE IF Ch(s, i) = "\"" THEN MemberColon(s, SkipWs(s, SkipStr(s, i + 1)))
  ELSE 0

\* The colon at c and the member's value.
MemberColon(s, c) ==
  IF c <= 0 THEN c
  ELSE IF Ch(s, c) = "" THEN -1
  ELSE IF Ch(s, c) # ":" THEN 0
  ELSE AfterMember(s, SkipWs(s, SkipValue(s, c + 1)))

\* What follows a member that ended before j: a comma and another member, or
\* the closing brace.
AfterMember(s, j) ==
  IF j <= 0 THEN j
  ELSE IF Ch(s, j) = "" THEN -1
  ELSE IF Ch(s, j) = ","
    THEN (IF Ch(s, SkipWs(s, j + 1)) = "" THEN -1
          ELSE IF Ch(s, SkipWs(s, j + 1)) = "\""
            THEN MemberColon(s, SkipWs(s, SkipStr(s, SkipWs(s, j + 1) + 1)))
          ELSE 0)
  ELSE IF Ch(s, j) = "}" THEN j + 1
  ELSE 0

\* fn is_valid_json: the whole text is one JSON value between whitespace.
is_valid_json(data) == SkipWs(data, SkipValue(data, 1)) = Len(data) + 1

(***************************************************************************)
(* Values: Option, Result and Record                                       *)
(***************************************************************************)
None == [some |-> FALSE]

Some(v) == [some |-> TRUE, val |-> v]

Ok(v) == [ok |-> TRUE, val |-> v]

\* An error of serde_json's category k: "data" (the value does not have the
\* shape asked for), "syntax" (the parser rejects the text itself) or "eof"
\* (the text ended inside a value).
Err(k) == [ok |-> FALSE, err |-> k]

\* struct Record { id: i32, name: String }; a decoded String is the sequence
\* of its characters, each a one-character string or, for a character the
\* alphabet does not have, its code point written "U+<hex>".
Record(id, name) == [id |-> id, name |-> name]

I32Max == 2147483647

(***************************************************************************)
(* from_str::<Record>: serde_json's typed parse into the derived struct.   *)
(* It decodes while it reads: what it returns for a text is the first      *)
(* error it comes to, of shape or of syntax.  A parser returns At(v, p),   *)
(* the value and the position after it, or the error.                      *)
(***************************************************************************)
At(v, p) == [ok |-> TRUE, val |-> v, pos |-> p]

\* The error of a scanner that returned p, which is 0 or -1.
PosErr(p) == IF p = 0 THEN Err("syntax") ELSE Err("eof")

\* Code points 32..95 and 97..126 in order (a TLA+ string cannot hold 96, the
\* grave accent, which is therefore no character of the alphabet).
AsciiLow == " !\"#$%&'()*+,-./0123456789:;<=>?@ABCDEFGHIJKLMNOPQRSTUVWXYZ[\\]^_"

AsciiHigh == "abcdefghijklmnopqrstuvwxyz{|}~"

HexUpper == "0123456789ABCDEF"

HexLower == "0123456789abcdef"

HexVal(c) == (CHOOSE k \in 1..16 : Ch(HexUpper, k) = c \/ Ch(HexLower, k) = c) - 1

Hex4Val(s, i) ==
  4096 * HexVal(Ch(s, i)) + 256 * HexVal(Ch(s, i + 1))
    + 16 * HexVal(Ch(s, i + 2)) + HexVal(Ch(s, i + 3))

RECURSIVE ToHex(_)
ToHex(n) ==
  IF n < 16 THEN Ch(HexUpper, n + 1)
  ELSE ToHex(n \div 16) \o Ch(HexUpper, (n % 16) + 1)

\* The character of code point n.
CharOf(n) ==
  IF n >= 32 /\ n <= 95 THEN Ch(AsciiLow, n - 31)
  ELSE IF n >= 97 /\ n <= 126 THEN Ch(AsciiHigh, n - 96)
  ELSE IF n = 9 THEN "\t"
  ELSE IF n = 10 THEN "\n"
  ELSE IF n = 13 THEN "\r"
  ELSE "U+" \o ToHex(n)

\* The character a one-letter escape stands for.
EscapeChar(e) ==
  CASE e = "b" -> CharOf(8)
    [] e = "f" -> CharOf(12)
    [] e = "n" -> "\n"
    [] e = "r" -> "\r"
    [] e = "t" -> "\t"
    [] OTHER -> e

IsLeadSurrogate(n) == n >= 55296 /\ n <= 56319

IsTrailSurrogate(n) == n >= 56320 /\ n <= 57343

\* parse_str, validating: the string body from position i, with acc decoded
\* so far; the value is the sequence of its characters.
RECURSIVE DecodeStr(_, _, _)
\* parse_unicode_escape after a lead surrogate n1 whose escape starts at i:
\* a \u escape of a trail surrogate must follow at i+6.
TrailEscape(s, i, acc, n1) ==
  IF Ch(s, i + 6) = "" THEN Err("eof")
  ELSE IF Ch(s, i + 6) # "\\" THEN Err("syntax")
  ELSE IF Ch(s, i + 7) = "" THEN Err("eof")
  ELSE IF Ch(s, i + 7) # "u" THEN Err("syntax")
  ELSE IF HexEscape(s, i + 8) # 1 THEN PosErr(HexEscape(s, i + 8))
  ELSE IF ~IsTrailSurrogate(Hex4Val(s, i + 8)) THEN Err("syntax")
  ELSE DecodeStr(s, i + 12,
         Append(acc, CharOf(65536 + (n1 - 55296) * 1024 + (Hex4Val(s, i + 8) - 56320))))

\* The \u escape at i, with code n1: a lone trail surrogate is an error.
DecodeUnicode(s, i, acc, n1) ==
  IF IsTrailSurrogate(n1) THEN Err("syntax")
  ELSE IF ~IsLeadSurrogate(n1) THEN DecodeStr(s, i + 6, Append(acc, CharOf(n1)))
  ELSE TrailEscape(s, i, acc, n1)

DecodeStr(s, i, acc) ==
  IF Ch(s, i) = "" THEN Err("eof")
  ELSE IF Ch(s, i) = "\"" THEN At(acc, i + 1)
  ELSE IF Ch(s, i) = "\\"
    THEN (IF Ch(s, i + 1) = "" THEN Err("eof")
          ELSE IF Ch(s, i + 1) \in {"\"", "\\", "/", "b", "f", "n", "r", "t"}
            THEN DecodeStr(s, i + 2, Append(acc, EscapeChar(Ch(s, i + 1))))
          ELSE IF Ch(s, i + 1) # "u" THEN Err("syntax")
          ELSE IF HexEscape(s, i + 2) # 1 THEN PosErr(HexEscape(s, i + 2))
          ELSE DecodeUnicode(s, i, acc, Hex4Val(s, i + 2)))
  ELSE IF IsControl(Ch(s, i)) THEN Err("syntax")
  ELSE DecodeStr(s, i + 1, Append(acc, Ch(s, i)))

\* The characters of a plain text, as DecodeStr gives them.
Chars(t) == [k \in 1..Len(t) |-> Ch(t, k)]

(***************************************************************************)
(* Numbers: parse_integer and what it calls.  The significand, a u64, is   *)
(* kept as its decimal digits without leading zeros ("" is 0).             *)
(***************************************************************************)
\* a < b, for digits a and b of one length, from the k-th on.
RECURSIVE DigitsLess(_, _, _)
DigitsLess(a, b, k) ==
  IF k > Len(a) THEN FALSE
  ELSE IF Ch(a, k) = Ch(b, k) THEN DigitsLess(a, b, k + 1)
  ELSE HexVal(Ch(a, k)) < HexVal(Ch(b, k))

\* a < b as numbers.
NumLess(a, b) == Len(a) < Len(b) \/ (Len(a) = Len(b) /\ DigitsLess(a, b, 1))

\* significand * 10 + digit
Push(sig, d) == IF sig = "" /\ d = "0" THEN "" ELSE sig \o d

\* u64::MAX
U64Max == "18446744073709551615"

\* overflow!(significand * 10 + digit, u64::MAX)
Overflows(sig, d) == NumLess(U64Max, Push(sig, d))

\* For the exponents 289 to 308, the least significand f whose product
\* (f as f64) * 1e<exponent>, rounded to an f64, is infinite; with a smaller
\* exponent no u64 has one.
F64Limits ==
  << "17976931348623156225", "1797693134862315649", "179769313486231600",
     "17976931348623158", "1797693134862316", "179769313486232",
     "17976931348624", "1797693134863", "179769313487", "17976931349",
     "1797693135", "179769314", "17976932", "1797694", "179770", "17977",
     "1798", "180", "18", "2" >>

\* The f64 of a number that is no integer; only that it is one matters.
Float == [float |-> TRUE]

\* f64_from_parts for the number that ends before p: the product of the
\* significand and 10^e, or the error NumberOutOfRange when it is infinite.
F64At(p, sig, e) ==
  IF sig # "" /\ e >= 0 /\ (e > 308 \/ (e >= 289 /\ ~NumLess(sig, F64Limits[e - 288])))
    THEN Err("syntax")
  ELSE At(Float, p)

\* The exponent's digits from i as an i32, from exp so far; -1 when
\* overflow!(exp * 10 + digit, i32::MAX).
RECURSIVE ExpValue(_, _, _)
ExpValue(s, i, exp) ==
  IF Ch(s, i) \notin Digits THEN exp
  ELSE IF /\ exp >= I32Max \div 10
          /\ (exp > I32Max \div 10 \/ HexVal(Ch(s, i)) > I32Max % 10)
    THEN -1
  ELSE ExpValue(s, i + 1, 10 * exp + HexVal(Ch(s, i)))

\* i32::saturating_add and saturating_sub of b >= 0.
SatAdd(a, b) == IF a > 0 /\ b > I32Max - a THEN I32Max ELSE a + b

SatSub(a, b) == IF a < 0 /\ b > (a + I32Max) + 1 THEN (0 - I32Max) - 1 ELSE a - b

\* The end of parse_exponent: the digits ended before p and are worth exp;
\* start is the exponent the mantissa gave.  An exponent too large for an
\* i32 (parse_exponent_overflow) is out of range unless the significand is 0
\* or the exponent negative, which give zero.
ExponentEnd(p, sig, start, positive_exp, exp) ==
  IF exp = -1 THEN (IF sig # "" /\ positive_exp THEN Err("syntax") ELSE At(Float, p))
  ELSE F64At(p, sig, IF positive_exp THEN SatAdd(start, exp) ELSE SatSub(start, exp))

\* The digits of the exponent, which start at i.
ExponentDigits(s, i, sig, start, positive_exp) ==
  IF Ch(s, i) = "" THEN Err("eof")
  ELSE IF Ch(s, i) \notin Digits THEN Err("syntax")
  ELSE ExponentEnd(SkipDigits(s, i), sig, start, positive_exp, ExpValue(s, i, 0))

\* parse_exponent, from the position after e or E.
ParseExponent(s, i, sig, start) ==
  IF Ch(s, i) = "+" THEN ExponentDigits(s, i + 1, sig, start, TRUE)
  ELSE IF Ch(s, i) = "-" THEN ExponentDigits(s, i + 1, sig, start, FALSE)
  ELSE ExponentDigits(s, i, sig, start, TRUE)

\* What follows a mantissa that ends before j with exponent e: an exponent
\* part, or nothing.
MantissaEnd(s, j, sig, e) ==
  IF Ch(s, j) \in {"e", "E"} THEN ParseExponent(s, j + 1, sig, e)
  ELSE F64At(j, sig, e)

\* parse_decimal from position i, after the point or a digit of the
\* fraction: before is the exponent the integer part gave, after minus the
\* number of digits of the fraction read.  Digits go into the significand
\* until one overflows it; the rest is dropped (parse_decimal_overflow).
RECURSIVE ParseDecimal(_, _, _, _, _)
ParseDecimal(s, i, sig, before, after) ==
  IF Ch(s, i) \in Digits
    THEN (IF Overflows(sig, Ch(s, i))
            THEN MantissaEnd(s, SkipDigits(s, i), sig, before + after)
          ELSE ParseDecimal(s, i + 1, Push(sig, Ch(s, i)), before, after - 1))
  ELSE IF after = 0 THEN (IF Ch(s, i) = "" THEN Err("eof") ELSE Err("syntax"))
  ELSE MantissaEnd(s, i, sig, before + after)

\* parse_long_integer: the digits of the integer part that the significand
\* has no room for, which end before j and number e, count in the exponent.
LongInteger(s, j, sig, e) ==
  IF Ch(s, j) = "." THEN ParseDecimal(s, j + 1, sig, e, 0)
  ELSE MantissaEnd(s, j, sig, e)

\* parse_number: what follows the integer part, which ends before i: a
\* fraction or an exponent make a float; otherwise the integer it is.
ParseNumber(s, i, sig, neg) ==
  IF Ch(s, i) = "." THEN ParseDecimal(s, i + 1, sig, 0, 0)
  ELSE IF Ch(s, i) \in {"e", "E"} THEN ParseExponent(s, i + 1, sig, 0)
  ELSE At([float |-> FALSE, neg |-> neg, sig |-> sig], i)

\* The digits of the integer part from i, after its first.
RECURSIVE IntDigits(_, _, _, _)
IntDigits(s, i, sig, neg) ==
  IF Ch(s, i) \notin Digits THEN ParseNumber(s, i, sig, neg)
  ELSE IF Overflows(sig, Ch(s, i))
    THEN LongInteger(s, SkipDigits(s, i), sig, SkipDigits(s, i) - i)
  ELSE IntDigits(s, i + 1, Push(sig, Ch(s, i)), neg)

\* parse_integer at a, the position after the sign: a single 0, or a digit
\* 1-9 and more digits.
ParseInteger(s, a, neg) ==
  IF Ch(s, a) = "" THEN Err("eof")
  ELSE IF Ch(s, a) = "0"
    THEN (IF Ch(s, a + 1) \in Digits THEN Err("syntax")
          ELSE ParseNumber(s, a + 1, "", neg))
  ELSE IF Ch(s, a) \in Digits THEN IntDigits(s, a + 1, Ch(s, a), neg)
  ELSE Err("syntax")

\* The value of the first k digits of t, at most nine.
RECURSIVE DigitsVal(_, _)
DigitsVal(t, k) ==
  IF k = 0 THEN 0 ELSE 10 * DigitsVal(t, k - 1) + HexVal(Ch(t, k))

\* The integer of significand sig (negative if neg) as an i32: the value, or
\* an invalid value when it is out of range.
IntInRange(sig, neg, p) ==
  IF Len(sig) < 10
    THEN At(IF neg THEN 0 - DigitsVal(sig, Len(sig)) ELSE DigitsVal(sig, Len(sig)), p)
  ELSE IF Len(sig) > 10 THEN Err("data")
  ELSE IF DigitsVal(sig, 9) < I32Max \div 10
            \/ (/\ DigitsVal(sig, 9) = I32Max \div 10
                /\ HexVal(Ch(sig, 10)) <= (I32Max % 10) + (IF neg THEN 1 ELSE 0))
    THEN At(IF neg THEN (0 - 10 * DigitsVal(sig, 9)) - HexVal(Ch(sig, 10))
            ELSE 10 * DigitsVal(sig, 9) + HexVal(Ch(sig, 10)), p)
  ELSE Err("data")

\* The i32 visitor on the number r: a float (also "-0") is an invalid type.
VisitI32(r) ==
  IF ~r.ok THEN r
  ELSE IF r.val.float \/ (r.val.neg /\ r.val.sig = "") THEN Err("data")
  ELSE IntInRange(r.val.sig, r.val.neg, r.pos)

(***************************************************************************)
(* The fields, the derived visitor and deserialize_struct                  *)
(***************************************************************************)
\* The error invalid type, of category data, for a value that was parsed
\* only to be named in the message; the error of that parse otherwise.
Unexpected(r) == IF r.ok THEN Err("data") ELSE r

\* The same for a word the scanner has read up to p.
UnexpectedIdent(p) == IF p <= 0 THEN PosErr(p) ELSE Err("data")

\* peek_invalid_type on the value at i, which is not of the type asked for:
\* a word, a number or a string is parsed first; an array or an object is
\* not read at all; anything else is no value (ExpectedSomeValue).
InvalidType(s, i) ==
  IF Ch(s, i) = "n" THEN UnexpectedIdent(SkipIdent(s, i, "null"))
  ELSE IF Ch(s, i) = "t" THEN UnexpectedIdent(SkipIdent(s, i, "true"))
  ELSE IF Ch(s, i) = "f" THEN UnexpectedIdent(SkipIdent(s, i, "false"))
  ELSE IF Ch(s, i) = "-" THEN Unexpected(ParseInteger(s, i + 1, TRUE))
  ELSE IF Ch(s, i) \in Digits THEN Unexpected(ParseInteger(s, i, FALSE))
  ELSE IF Ch(s, i) = "\"" THEN Unexpected(DecodeStr(s, i + 1, <<>>))
  ELSE IF Ch(s, i) \in {"[", "{"} THEN Err("data")
  ELSE Err("syntax")

\* deserialize_i32 on the value at i.
ParseI32(s, i) ==
  IF Ch(s, i) = "" THEN Err("eof")
  ELSE IF Ch(s, i) = "-" THEN VisitI32(ParseInteger(s, i + 1, TRUE))
  ELSE IF Ch(s, i) \in Digits THEN VisitI32(ParseInteger(s, i, FALSE))
  ELSE InvalidType(s, i)

\* deserialize_string on the value at i.
ParseString(s, i) ==
  IF Ch(s, i) = "" THEN Err("eof")
  ELSE IF Ch(s, i) = "\"" THEN DecodeStr(s, i + 1, <<>>)
  ELSE InvalidType(s, i)

\* parse_object_colon at c: the position of the value after the colon.
ColonAt(s, c) ==
  IF Ch(s, c) = "" THEN -1
  ELSE IF Ch(s, c) = ":" THEN SkipWs(s, c + 1)
  ELSE 0

RECURSIVE VisitMap(_, _, _, _, _)
\* The field read as r: the visitor goes on with the next key.
IdRead(s, r, name) ==
  IF ~r.ok THEN r ELSE VisitMap(s, SkipWs(s, r.pos), FALSE, Some(r.val), name)

NameRead(s, r, id) ==
  IF ~r.ok THEN r ELSE VisitMap(s, SkipWs(s, r.pos), FALSE, id, Some(r.val))

\* The value of an unknown field, skipped as IgnoredAny up to p.
OtherRead(s, p, id, name) ==
  IF p <= 0 THEN PosErr(p) ELSE VisitMap(s, SkipWs(s, p), FALSE, id, name)

\* next_value for the key just read, with v what ColonAt returned.
ValueOf(s, key, v, id, name) ==
  IF v <= 0 THEN PosErr(v)
  ELSE IF key = <<"i", "d">> THEN IdRead(s, ParseI32(s, v), name)
  ELSE IF key = <<"n", "a", "m", "e">> THEN NameRead(s, ParseString(s, v), id)
  ELSE OtherRead(s, SkipValue(s, v), id, name)

\* The member whose key parse_str gave as key: a field met for the second
\* time is the error duplicate field, before its value is read.
VisitField(s, key, id, name) ==
  IF ~key.ok THEN key
  ELSE IF key.val = <<"i", "d">> /\ id.some THEN Err("data")
  ELSE IF key.val = <<"n", "a", "m", "e">> /\ name.some THEN Err("data")
  ELSE ValueOf(s, key.val, ColonAt(s, SkipWs(s, key.pos)), id, name)

\* The key expected at k (has_next_key after the first member or a comma).
KeyAt(s, k, id, name) ==
  IF Ch(s, k) = "" THEN Err("eof")
  ELSE IF Ch(s, k) = "\"" THEN VisitField(s, DecodeStr(s, k + 1, <<>>), id, name)
  ELSE Err("syntax")

\* The derived visit_map and end_map, at position i after whitespace, with
\* the fields read so far; first: no member has been read yet.  At the
\* closing brace both fields must be there (missing field).
VisitMap(s, i, first, id, name) ==
  IF Ch(s, i) = "" THEN Err("eof")
  ELSE IF Ch(s, i) = "}"
    THEN (IF id.some /\ name.some THEN At(Record(id.val, name.val), i + 1)
          ELSE Err("data"))
  ELSE IF first THEN KeyAt(s, i, id, name)
  ELSE IF Ch(s, i) = "," THEN KeyAt(s, SkipWs(s, i + 1), id, name)
  ELSE Err("syntax")

\* end_seq at w, after the two elements.
EndSeq(s, rec, w) ==
  IF Ch(s, w) = "" THEN Err("eof")
  ELSE IF Ch(s, w) = "]" THEN At(rec, w + 1)
  ELSE Err("syntax")

\* The name read as t, after the id n.
SeqEnd(s, n, t) ==
  IF ~t.ok THEN t ELSE EndSeq(s, Record(n.val, t.val), SkipWs(s, t.pos))

\* The second element, expected at r after the comma.
SeqSecond(s, n, r) ==
  IF Ch(s, r) = "" THEN Err("eof")
  ELSE IF Ch(s, r) = "]" THEN Err("syntax")
  ELSE SeqEnd(s, n, ParseString(s, r))

\* What follows the id at q: a comma and the name; the closing bracket is
\* the error invalid length.
SeqComma(s, n, q) ==
  IF Ch(s, q) = "" THEN Err("eof")
  ELSE IF Ch(s, q) = "]" THEN Err("data")
  ELSE IF Ch(s, q) = "," THEN SeqSecond(s, n, SkipWs(s, q + 1))
  ELSE Err("syntax")

\* The first element read as n.
SeqName(s, n) == IF ~n.ok THEN n ELSE SeqComma(s, n, SkipWs(s, n.pos))

\* The derived visit_seq and end_seq over an array whose first element (or
\* closing bracket) is at i: the id, then the name.
VisitSeq(s, i) ==
  IF Ch(s, i) = "" THEN Err("eof")
  ELSE IF Ch(s, i) = "]" THEN Err("data")
  ELSE SeqName(s, ParseI32(s, i))

\* deserialize_struct on the value whose first character is at i: a map or a
\* sequence; any other value is an invalid type.
StructAt(s, i) ==
  IF Ch(s, i) = "" THEN Err("eof")
  ELSE IF Ch(s, i) = "{" THEN VisitMap(s, SkipWs(s, i + 1), TRUE, None, None)
  ELSE IF Ch(s, i) = "[" THEN VisitSeq(s, SkipWs(s, i + 1))
  ELSE InvalidType(s, i)

\* Deserializer::end: nothing but whitespace may follow the value.
EndOf(s, r) ==
  IF ~r.ok THEN r
  ELSE IF SkipWs(s, r.pos) <= Len(s) THEN Err("syntax")
  ELSE Ok(r.val)

\* serde_json::from_str::<Record>
from_str(s) == EndOf(s, StructAt(s, SkipWs(s, 1)))

(***************************************************************************)
(* fn parse_line_bufferd                                                   *)
(***************************************************************************)
\* Faulty variant: the line's line feed is put back after it.
push_str_newline(b, line) == b \o line \o "\n"

\* String::push_str: the text appended, nothing between.
push_str(b, line) == b \o line

\* Faulty variant: from_str(line).ok() in place of the `?`, a failed decode is None.
OkSome_error_dropped(r) == IF r.ok THEN Ok(Some(r.val)) ELSE Ok(None)

\* Ok(Some(from_str(line)?)): the record, or the error the `?` returns.
OkSome(r) == IF r.ok THEN Ok(Some(r.val)) ELSE r

\* Faulty variant: the buffer is not cleared.
clear_forgotten(b) == b

\* buf.clear()
clear(b) == ""

\* Faulty variant: the buffer is taken (emptied) before it is decoded.
Decoded_buffer_taken(b, r) ==
  IF r.ok THEN [buf |-> "", ret |-> Ok(Some(r.val))]
  ELSE [buf |-> "", ret |-> r]

\* Faulty variant: a failed decode of the buffer counts as "no record yet".
Decoded_error_swallowed(b, r) ==
  IF r.ok THEN [buf |-> "", ret |-> Ok(Some(r.val))]
  ELSE [buf |-> b, ret |-> Ok(None)]

\* Lines 27-29, with the buffer b well-formed and r what from_str made of it:
\* the `?` returns an error at once, before buf.clear().
Decoded(b, r) ==
  IF r.ok THEN [buf |-> clear(b), ret |-> Ok(Some(r.val))]
  ELSE [buf |-> b, ret |-> r]

\* Faulty variant: one combined attempt, the typed decode without the test of
\* well-formedness before it.
Pushed_ungated(b) == Decoded(b, from_str(b))

\* Lines 26-32, with b the buffer after push_str.
Pushed(b) ==
  IF is_valid_json(b) THEN Decoded(b, from_str(b))
  ELSE [buf |-> b, ret |-> Ok(None)]

\* Faulty variant: no fast path, every line goes through the buffer.
parse_line_bufferd_always_push(b, line) == Pushed(push_str(b, line))

\* Faulty variant: the fast path without buf.is_empty().
parse_line_bufferd_fast_always(b, line) ==
  IF is_valid_json(line)
    THEN [buf |-> b, ret |-> OkSome(from_str(line))]
  ELSE Pushed(push_str(b, line))

\* The call's effect: the buffer it leaves and the value it returns.
parse_line_bufferd(b, line) ==
  IF b = "" /\ is_valid_json(line)
    THEN [buf |-> b, ret |-> OkSome(from_str(line))]
  ELSE Pushed(push_str(b, line))

(***************************************************************************)
(* str::lines                                                              *)
(***************************************************************************)
\* The position of the first line feed of t, 0 when it has none.
RECURSIVE FindLf(_, _)
FindLf(t, i) ==
  IF i > Len(t) THEN 0
  ELSE IF Ch(t, i) = "\n" THEN i
  ELSE FindLf(t, i + 1)

\* A line without the carriage return that stood before its line feed.
StripCr(t) == IF Ch(t, Len(t)) = "\r" THEN Slice(t, 1, Len(t) - 1) ELSE t

\* str::lines: t split after each line feed, the line feed and a carriage
\* return before it dropped; a last line without line feed is kept as it is,
\* and an empty text has no line.
RECURSIVE lines(_)
\* The lines of t, whose first line feed is at k (0: it has none).
LinesFrom(t, k) ==
  IF k = 0 THEN <<t>>
  ELSE <<StripCr(Slice(t, 1, k - 1))>> \o lines(Slice(t, k + 1, Len(t)))

lines(t) == IF t = "" THEN <<>> ELSE LinesFrom(t, FindLf(t, 1))

(***************************************************************************)
(* Inputs                                                                  *)
(***************************************************************************)
\* The most records a stream of the chunk source holds.
MaxRecords == 2

\* The most calls of the decoder-level specification.
MaxFeeds == 3

\* Texts of single records: an object with a space after it, and the array
\* form.
RecordTexts ==
  { "{\"id\":1,\"name\":\"a\"} ",
    "[2,\"b\"]" }

\* The sequences over S of length at most n.
RECURSIVE SeqsUpTo(_, _)
SeqsUpTo(S, n) ==
  IF n = 0 THEN {<<>>}
  ELSE LET shorter == SeqsUpTo(S, n - 1)
       IN  shorter \cup {Append(q, x) : q \in shorter, x \in S}

\* The texts of q, each followed by the line ending nl.
RECURSIVE JoinLines(_, _)
JoinLines(q, nl) ==
  IF q = <<>> THEN "" ELSE Head(q) \o nl \o JoinLines(Tail(q), nl)

\* What the query service may send as the whole of its Records payloads:
\* JSON-Lines texts of records, with or without the last line ending, and
\* texts with a cut-off record, a record of the wrong shape, other JSON
\* values, CR LF line endings and blank lines.
JsonlStreams ==
  LET texts == {JoinLines(q, "\n") : q \in SeqsUpTo(RecordTexts, MaxRecords)}
  IN  texts \cup {Slice(t, 1, Len(t) - 1) : t \in texts \ {""}}

OtherStreams ==
  { "{\"id\": 1,\n\"name\": \"bob\"}\n{\"id\": 2, \"name\": \"ann\"}\n",
    "{\"id\":1,\"name\":\"a\"}\n{\"id\":2,",
    "{\"id\": 1,",
    " {\"x\":[0],\"name\":\"b\",\"id\":-2}",
    "{\"name\":\"a\"}\n{\"id\":2,\"name\":\"b\"}\n",
    "{\"id\":1,\"name\":\"a\"}\n{\"id\":2}\n[3,\"c\"]\n",
    "1\n[3,\"c\"]\n",
    "[1,\"a\"]\r\n\r\n[2,\"b\"]\r\n",
    "{\"id\":1,\"name\":\"a\"}\n \n[3,\"c\"]\n" }

Streams == JsonlStreams \cup OtherStreams

(***************************************************************************)
(* State                                                                   *)
(***************************************************************************)
VARIABLES
  stream,             \* the text the chunk source sends in all (environment)
  delivered,          \* how many of its characters recv() has handed over
  lines_left,         \* the lines of records_str the for loop has yet to feed
  buf,                \* let mut buf = String::new()
  processed_records,  \* let mut processed_records
  pc,                 \* "recv": at output.payload.recv(); "lines": in the for
                      \* loop; "done": handler has returned
  outcome,            \* what handler returned, None while it runs
  ret,                \* what the last parse_line_bufferd call returned
  fed,                \* decoder-level: the lines fed so far
  rets,               \* decoder-level: what each call returned
  second              \* a second decoder, of another run of the drain loop:
                      \* its own buf, and its fed and rets

vars == <<stream, delivered, lines_left, buf, processed_records, pc, outcome,
          ret, fed, rets, second>>

\* A decoder as line 78 makes it: String::new(), and nothing fed yet.
NewDecoder == [buf |-> "", fed |-> <<>>, rets |-> <<>>]

(***************************************************************************)
(* async fn handler: the drain loop                                        *)
(***************************************************************************)
Init ==
  /\ stream \in Streams
  /\ delivered = 0
  /\ lines_left = <<>>
  /\ buf = ""
  /\ processed_records = <<>>
  /\ pc = "recv"
  /\ outcome = None
  /\ ret = Ok(None)
  /\ fed = <<>>
  /\ rets = <<>>
  /\ second = NewDecoder

\* The for loop starts on the lines of the payload.
StartLines(ls) ==
  /\ lines_left' = ls
  /\ pc' = IF ls = <<>> THEN "recv" ELSE "lines"

\* recv() returns a Records event whose payload is the next n characters of
\* the stream (n = 0: no payload, or an empty one).
RecvRecords ==
  /\ pc = "recv"
  /\ \E n \in 0..(Len(stream) - delivered) :
       /\ delivered' = delivered + n
       /\ StartLines(lines(Slice(stream, delivered + 1, delivered + n)))
  /\ UNCHANGED <<stream, buf, processed_records, outcome, ret, fed, rets, second>>

\* recv() returns an event that is not Records (Stats, Progress, Cont, End):
\* the if let does not match.
RecvOther ==
  /\ pc = "recv"
  /\ pc' = "recv"
  /\ UNCHANGED <<stream, delivered, lines_left, buf, processed_records,
                 outcome, ret, fed, rets, second>>

\* recv() returns Ok(None), the end of the stream, once the source has sent
\* everything: the loop ends and handler returns Ok(processed_records).
RecvEnd ==
  /\ pc = "recv"
  /\ delivered = Len(stream)
  /\ pc' = "done"
  /\ outcome' = Some(Ok(processed_records))
  /\ UNCHANGED <<stream, delivered, lines_left, buf, processed_records, ret,
                 fed, rets, second>>

\* recv() returns an error: the `?` returns it from handler.
RecvError ==
  /\ pc = "recv"
  /\ pc' = "done"
  /\ outcome' = Some(Err("source"))
  /\ UNCHANGED <<stream, delivered, lines_left, buf, processed_records, ret,
                 fed, rets, second>>

\* Faulty variant: the loop goes on after a call that failed.
Fed_error_ignored(call) ==
  /\ buf' = call.buf
  /\ ret' = call.ret
  /\ processed_records' =
       IF call.ret.ok /\ call.ret.val.some
         THEN Append(processed_records, call.ret.val.val)
         ELSE processed_records
  /\ lines_left' = Tail(lines_left)
  /\ pc' = IF Tail(lines_left) = <<>> THEN "recv" ELSE "lines"
  /\ outcome' = outcome

\* Faulty variant: the record is put at the front of the output.
Fed_pushed_first(call) ==
  /\ buf' = call.buf
  /\ ret' = call.ret
  /\ IF call.ret.ok
       THEN /\ processed_records' =
                 IF call.ret.val.some
                   THEN <<call.ret.val.val>> \o processed_records
                   ELSE processed_records
            /\ lines_left' = Tail(lines_left)
            /\ pc' = IF Tail(lines_left) = <<>> THEN "recv" ELSE "lines"
            /\ outcome' = outcome
       ELSE /\ processed_records' = processed_records
            /\ lines_left' = <<>>
            /\ pc' = "done"
            /\ outcome' = Some(call.ret)

\* What the for loop does with a call's result: an error returns from
\* handler, a record is pushed.
Fed(call) ==
  /\ buf' = call.buf
  /\ ret' = call.ret
  /\ IF call.ret.ok
       THEN /\ processed_records' =
                 IF call.ret.val.some
                   THEN Append(processed_records, call.ret.val.val)
                   ELSE processed_records
            /\ lines_left' = Tail(lines_left)
            /\ pc' = IF Tail(lines_left) = <<>> THEN "recv" ELSE "lines"
            /\ outcome' = outcome
       ELSE /\ processed_records' = processed_records
            /\ lines_left' = <<>>
            /\ pc' = "done"
            /\ outcome' = Some(call.ret)

\* One turn of the for loop: the next line goes to parse_line_bufferd.
FeedLine ==
  /\ pc = "lines"
  /\ Fed(parse_line_bufferd(buf, Head(lines_left)))
  /\ UNCHANGED <<stream, delivered, fed, rets, second>>

Next == RecvRecords \/ RecvOther \/ RecvEnd \/ RecvError \/ FeedLine

Spec == Init /\ [][Next]_vars

(***************************************************************************)
(* The decoder alone: parse_line_bufferd called on a buffer that starts    *)
(* empty, with any lines, whatever it returns.                             *)
(***************************************************************************)
Line1 == "{\"id\": 1,"

Line2 == "\"name\": \"bob\"}"

Line3 == "{\"id\": 2, \"name\": \"ann\"}"

\* Lines to feed: the three of the example, the empty line, JSON values that
\* are no Record, a Record in array form, a lone brace, an array whose
\* name is an escape of a lone surrogate, and an end of Line1 with a number
\* as the name.
Lines ==
  {Line1, Line2, Line3, "", "1", "{\"id\":2}", "[3,\"c\"]", "}",
   "[4,\"\\ud800\"]", "\"name\": 5}"}

InitFeed ==
  /\ stream = ""
  /\ delivered = 0
  /\ lines_left = <<>>
  /\ buf = ""
  /\ processed_records = <<>>
  /\ pc = "feed"
  /\ outcome = None
  /\ ret = Ok(None)
  /\ fed = <<>>
  /\ rets = <<>>
  /\ second = NewDecoder

\* The effect of one call on the decoder's state.
Called(l, call) ==
  /\ buf' = call.buf
  /\ ret' = call.ret
  /\ fed' = Append(fed, l)
  /\ rets' = Append(rets, call.ret)

Feed ==
  /\ pc = "feed"
  /\ Len(fed) < MaxFeeds
  /\ \E l \in Lines : Called(l, parse_line_bufferd(buf, l))
  /\ UNCHANGED <<stream, delivered, lines_left, processed_records, pc, outcome,
                 second>>

NextFeed == Feed

SpecFeed == InitFeed /\ [][NextFeed]_vars

(***************************************************************************)
(* Two decoders: two runs of the drain loop, each with the buf its line 78 *)
(* made, whose parse_line_bufferd calls interleave in any order; a run     *)
(* that ends is followed by a new one, which makes its buf anew.           *)
(***************************************************************************)
\* The lines the two runs feed: the three of the example and an end of Line1
\* with a number as the name.
TwoLines == {Line1, Line2, Line3, "\"name\": 5}"}

InitTwo ==
  /\ stream = ""
  /\ delivered = 0
  /\ lines_left = <<>>
  /\ buf = ""
  /\ processed_records = <<>>
  /\ pc = "two"
  /\ outcome = None
  /\ ret = Ok(None)
  /\ fed = <<>>
  /\ rets = <<>>
  /\ second = NewDecoder

\* A call of the first run: parse_line_bufferd(&mut buf, l) with its own buf.
FeedFirst ==
  /\ pc = "two"
  /\ Len(fed) < MaxFeeds
  /\ \E l \in TwoLines : Called(l, parse_line_bufferd(buf, l))
  /\ UNCHANGED <<stream, delivered, lines_left, processed_records, pc, outcome,
                 second>>

\* Faulty variant: the buffer is process-wide, the call writes the one buffer
\* there is.
CalledSecond_shared(l, call) ==
  /\ second' = [buf |-> call.buf,
                fed |-> Append(second.fed, l),
                rets |-> Append(second.rets, call.ret)]
  /\ buf' = call.buf
  /\ UNCHANGED <<ret, fed, rets>>

\* The effect of a call of the second run: on the buf it was handed, no other.
CalledSecond(l, call) ==
  /\ second' = [buf |-> call.buf,
                fed |-> Append(second.fed, l),
                rets |-> Append(second.rets, call.ret)]
  /\ UNCHANGED <<buf, ret, fed, rets>>

\* A call of the second run.
FeedSecond ==
  /\ pc = "two"
  /\ Len(second.fed) < MaxFeeds
  /\ \E l \in TwoLines : CalledSecond(l, parse_line_bufferd(second.buf, l))
  /\ UNCHANGED <<stream, delivered, lines_left, processed_records, pc, outcome>>

\* The first run is over, its buf dropped wherever it stood, and handler is
\* called again: let mut buf = String::new().
RunAgainFirst ==
  /\ pc = "two"
  /\ fed # <<>>
  /\ buf' = NewDecoder.buf
  /\ fed' = NewDecoder.fed
  /\ rets' = NewDecoder.rets
  /\ ret' = Ok(None)
  /\ UNCHANGED <<stream, delivered, lines_left, processed_records, pc, outcome,
                 second>>

\* The same for the second run.
RunAgainSecond ==
  /\ pc = "two"
  /\ second.fed # <<>>
  /\ second' = NewDecoder
  /\ UNCHANGED <<stream, delivered, lines_left, buf, processed_records, pc,
                 outcome, ret, fed, rets>>

NextTwo == FeedFirst \/ FeedSecond \/ RunAgainFirst \/ RunAgainSecond

SpecTwo == InitTwo /\ [][NextTwo]_vars

(***************************************************************************)
(* Claims                                                                  *)
(***************************************************************************)
\* Every line of t decodes as a Record: t is JSON-Lines text of records.
IsJsonl(t) == \A k \in 1..Len(lines(t)) : from_str(lines(t)[k]).ok

\* The records of a JSON-Lines text, in order.
RecordsOf(t) == [k \in 1..Len(lines(t)) |-> from_str(lines(t)[k]).val]

\* q is the start of r.
IsPrefix(q, r) == Len(q) <= Len(r) /\ q = SubSeq(r, 1, Len(q))

\* t is the text of one record and has no line ending.
SingleRecord(t) == FindLf(t, 1) = 0 /\ from_str(t).ok

\* The position of the last character of the JSON value of t.
ValueEnd(t) == SkipValue(t, 1) - 1

\* t has a character that is not whitespace.
NotBlank(t) == SkipWs(t, 1) <= Len(t)

\* What a call returns for a well-formed text it decodes: the record, or the
\* decode error.
Returned(t) == IF from_str(t).ok THEN Ok(Some(from_str(t).val)) ELSE from_str(t)

\* C1: whatever the chunks a JSON-Lines text of records is cut into, the
\* drain loop's output is at every moment a start of the text's record
\* sequence, no decode error ends it, and at the end of the stream handler
\* returns exactly that sequence.
C1_NoLossNoDuplication ==
  IsJsonl(stream) =>
    /\ IsPrefix(processed_records, RecordsOf(stream))
    /\ outcome.some =>
         \/ outcome.val = Err("source")
         \/ outcome.val = Ok(RecordsOf(stream))

C1_Witness ==
  /\ IsJsonl(stream)
  /\ Len(RecordsOf(stream)) >= 2
  /\ outcome = Some(Ok(RecordsOf(stream)))

\* C2 as claimed: of the fragments of one record's text, fed as successive
\* lines, only the last makes the call return a record, the record of the
\* whole text.
C2_RecordOnlyAtLastFragment ==
  [][(pc = "lines" /\ SingleRecord(stream)) =>
       ret' = IF delivered = Len(stream)
                THEN Ok(Some(from_str(stream).val))
                ELSE Ok(None)]_vars

\* C2 as amended: of the fragments of one record's text, fed as successive
\* lines, the one holding the last character of the JSON value makes the call
\* return the record of the whole text, and every other call returns no
\* record; that fragment is the last unless whitespace ends the text.
C2_RecordAtValueEnd ==
  [][(pc = "lines" /\ SingleRecord(stream)) =>
       ret' = IF /\ delivered - Len(Head(lines_left)) < ValueEnd(stream)
                 /\ ValueEnd(stream) <= delivered
                THEN Ok(Some(from_str(stream).val))
                ELSE Ok(None)]_vars

C2_Witness ==
  /\ SingleRecord(stream)
  /\ ValueEnd(stream) < Len(stream)
  /\ delivered = Len(stream)
  /\ pc = "recv"
  /\ processed_records = <<from_str(stream).val>>
  /\ ret = Ok(None)
  /\ buf # ""

\* C3 as claimed: handler never returns a record list while the buffer holds
\* the start of a record.
C3_TruncatedStreamIsError ==
  (outcome.some /\ NotBlank(buf)) => ~outcome.val.ok

\* C4: a call whose text (the line, or the buffer with the line) is
\* well-formed JSON that does not decode as a Record returns an error, which
\* handler returns without pushing a record; and once handler has returned,
\* no record is pushed.
C4_ShapeMismatchIsFatal ==
  [][/\ (/\ pc = "lines"
         /\ is_valid_json(buf \o Head(lines_left))
         /\ ~from_str(buf \o Head(lines_left)).ok)
          => /\ ~ret'.ok
             /\ pc' = "done"
             /\ outcome' = Some(ret')
             /\ processed_records' = processed_records
     /\ pc = "done" => (pc' = "done" /\ processed_records' = processed_records)]_vars

C4_Witness ==
  /\ pc = "done"
  /\ outcome = Some(Err("data"))
  /\ Len(processed_records) = 1
  /\ Len(lines(stream)) = 3
  /\ delivered = Len(stream)

\* Every line fed so far is well-formed JSON by itself.
AllValid == \A k \in 1..Len(fed) : is_valid_json(fed[k])

\* C5 as claimed: when every line fed is well-formed JSON by itself, every
\* call has returned the record of its line and the buffer is empty.
C5_ValidLinesYieldRecords ==
  AllValid =>
    /\ buf = ""
    /\ \A k \in 1..Len(fed) : rets[k].ok /\ rets[k] = Ok(Some(from_str(fed[k]).val))

\* C5 as amended: when every line fed is well-formed JSON by itself, every
\* call has returned the record of its line, or the decode error when the
\* line does not decode as a Record, and the buffer is empty.
C5_ValidLinesYieldRecordsOrErrors ==
  AllValid =>
    /\ buf = ""
    /\ \A k \in 1..Len(fed) : rets[k] = Returned(fed[k])

C5_Witness ==
  /\ AllValid
  /\ Len(fed) = 3
  /\ fed[1] # fed[2]
  /\ \A k \in 1..3 : rets[k].ok /\ rets[k].val.some
  /\ buf = ""

\* C6: the three lines of the example give no record, then bob, then ann,
\* and leave the buffer empty.
C6_Example ==
  /\ (Len(fed) >= 1 /\ fed[1] = Line1) => rets[1] = Ok(None)
  /\ (Len(fed) >= 3 /\ SubSeq(fed, 1, 3) = <<Line1, Line2, Line3>>) =>
       /\ SubSeq(rets, 1, 3)
            = << Ok(None),
                 Ok(Some(Record(1, <<"b", "o", "b">>))),
                 Ok(Some(Record(2, <<"a", "n", "n">>))) >>
       /\ Len(fed) = 3 => buf = ""

C6_Witness == fed = <<Line1, Line2, Line3>> /\ buf = ""

\* C7: a call with the buffer empty and a line that is well-formed JSON by
\* itself returns what decoding the line gives, record or error, and leaves
\* the buffer empty.
C7_FastPath ==
  [][(pc = "lines" /\ buf = "" /\ is_valid_json(Head(lines_left))) =>
       /\ ret' = Returned(Head(lines_left))
       /\ buf' = ""]_vars

C7_Witness ==
  /\ pc = "done"
  /\ outcome = Some(Err("data"))
  /\ ret = Err("data")
  /\ buf = ""

\* C8: a call with the buffer not empty, or a line that is not well-formed
\* JSON by itself, appends the line to the buffer as it is; a buffer that then
\* decodes as a Record is returned as that record and cleared, and one that
\* is not well-formed JSON stays, the call returning Ok(None).
C8_SlowPath ==
  [][(pc = "lines" /\ ~(buf = "" /\ is_valid_json(Head(lines_left)))) =>
       /\ from_str(buf \o Head(lines_left)).ok =>
            /\ ret' = Ok(Some(from_str(buf \o Head(lines_left)).val))
            /\ buf' = ""
       /\ ~from_str(buf \o Head(lines_left)).ok =>
            buf' = buf \o Head(lines_left)
       /\ ~is_valid_json(buf \o Head(lines_left)) => ret' = Ok(None)]_vars

C8_Witness ==
  /\ pc = "recv"
  /\ ret = Ok(None)
  /\ NotBlank(buf)
  /\ Len(processed_records) = 1

\* C9: a call's error is what handler returns at once, and once handler has
\* returned an error, from a call or from the source, nothing moves: no
\* chunk is asked for, no line fed, no record pushed, and the error stays.
C9_ErrorsAbort ==
  [][/\ (pc = "lines" /\ ~ret'.ok) =>
          /\ pc' = "done"
          /\ outcome' = Some(ret')
          /\ processed_records' = processed_records
     /\ (outcome.some /\ ~outcome.val.ok) =>
          /\ pc = "done"
          /\ UNCHANGED vars
     /\ (outcome'.some /\ ~outcome.some) => pc' = "done"]_vars

C9_Witness ==
  /\ pc = "done"
  /\ outcome = Some(Err("source"))
  /\ Len(processed_records) = 1
  /\ NotBlank(buf)
  /\ delivered < Len(stream)

\* C10: the buffer starts empty, is empty after every call that returns a
\* record, and goes from not empty to empty only in a call that returns a
\* record.
C10_BufferLifecycle ==
  /\ buf = ""
  /\ [][/\ (pc = "lines" /\ ret'.ok /\ ret'.val.some) => buf' = ""
        /\ (buf # "" /\ buf' = "") => (pc = "lines" /\ ret'.ok /\ ret'.val.some)]_vars

C10_Witness ==
  /\ stream = JoinLines(<<Line1, Line2, Line3>>, "\n")
  /\ processed_records = <<Record(1, <<"b", "o", "b">>)>>
  /\ ret = Ok(Some(Record(1, <<"b", "o", "b">>)))
  /\ buf = ""

\* The call just made was fed the line l.
JustFed(l) == Len(fed') = Len(fed) + 1 /\ fed'[Len(fed')] = l

\* C11: a call fed the empty line leaves the buffer as it was, whatever the
\* buffer holds, and returns no record; with the buffer empty it returns
\* Ok(None), no error.
C11_EmptyLine ==
  [][JustFed("") =>
       /\ buf' = buf
       /\ ~(ret'.ok /\ ret'.val.some)
       /\ buf = "" => (ret' = Ok(None) /\ buf' = "")]_vars

C11_Witness ==
  /\ fed = <<"", Line1, "">>
  /\ rets = <<Ok(None), Ok(None), Ok(None)>>
  /\ buf = Line1

\* The call just made has error category k.
FailedAs(k) == Len(fed') = Len(fed) + 1 /\ ~ret'.ok /\ ret'.err = k

\* C12 as claimed: the typed decode runs only on text that is_valid_json has
\* accepted, so no call fails with a JSON syntax error: every error is a
\* mismatch of shape.
C12_NeverSyntaxError ==
  [][(Len(fed') = Len(fed) + 1 /\ ~ret'.ok) => FailedAs("data")]_vars

\* The call just made, whose text (the line, or the buffer with the line) is
\* text, returned a record or an error only for text is_valid_json accepts,
\* and then what the typed decode of that text gives.
GatedBy(text) ==
  /\ (ret'.ok /\ ret'.val.some) =>
       (is_valid_json(text) /\ ret' = Ok(Some(from_str(text).val)))
  /\ ~ret'.ok => (is_valid_json(text) /\ ret' = from_str(text))

\* C12 as amended: the typed decode runs only on text that is_valid_json has
\* accepted, so every record and every error a call returns comes from
\* well-formed text; the error is a mismatch of shape or the typed parser's
\* own rejection of text the test lets through.
C12_DecodeOnlyWellFormed ==
  [][Len(fed') = Len(fed) + 1 => GatedBy(buf \o fed'[Len(fed')])]_vars

C12_Witness ==
  /\ Len(fed) = 2
  /\ rets[1] = Ok(Some(Record(3, <<"c">>)))
  /\ is_valid_json(fed[2])
  /\ ret = Err("syntax")
  /\ buf = ""

\* The call just made returned an error.
JustFailed == Len(fed') = Len(fed) + 1 /\ ~ret'.ok

\* C13 as claimed: a call that fails leaves the buffer as it was before the
\* call, on the fast path and on the accumulate path.
C13_FailedCallLeavesBuffer == [][JustFailed => buf' = buf]_vars

\* C13 as amended: a call that fails on the fast path leaves the buffer as it
\* was, empty; one that fails on the accumulate path leaves the buffer it
\* had with the line appended, the append kept and nothing cleared.
C13_FailedCallKeepsAppend ==
  [][JustFailed =>
       buf' = IF buf = "" /\ is_valid_json(fed'[Len(fed')])
                THEN buf
                ELSE buf \o fed'[Len(fed')]]_vars

C13_Witness ==
  /\ fed = <<Line1, "\"name\": 5}">>
  /\ rets = <<Ok(None), Err("data")>>
  /\ buf = "{\"id\": 1,\"name\": 5}"

\* What a decoder that starts empty returns, and the buffer it ends with,
\* when the lines of q are fed to it alone, in order.
RECURSIVE RunFrom(_, _, _)
AfterCall(call, rest, acc) == RunFrom(call.buf, rest, Append(acc, call.ret))

RunFrom(b, q, acc) ==
  IF q = <<>> THEN [buf |-> b, rets |-> acc]
  ELSE AfterCall(parse_line_bufferd(b, Head(q)), Tail(q), acc)

Alone(q) == RunFrom("", q, <<>>)

\* C14: however the calls of two runs interleave, each decoder has returned
\* what it returns when its own lines are fed alone to a decoder that starts
\* empty, and holds the buffer it then holds; so a run that has fed nothing
\* yet has an empty buffer, whatever an earlier run left in its own.
C14_NoInterference ==
  /\ buf = Alone(fed).buf
  /\ rets = Alone(fed).rets
  /\ second.buf = Alone(second.fed).buf
  /\ second.rets = Alone(second.fed).rets
  /\ fed = <<>> => buf = ""
  /\ second.fed = <<>> => second.buf = ""

C14_Witness ==
  /\ fed = <<Line1, Line2, Line3>>
  /\ second.fed = <<Line1>>
  /\ second.buf = Line1
  /\ buf = ""
  /\ rets[2] = Ok(Some(Record(1, <<"b", "o", "b">>)))

\* No call so far has returned an error.
AllOk == \A k \in 1..Len(rets) : rets[k].ok

\* The number of the most recent call that returned a record, 0 if none did.
RECURSIVE LastRecord(_)
LastRecord(k) ==
  IF k = 0 THEN 0
  ELSE IF rets[k].ok /\ rets[k].val.some THEN k
  ELSE LastRecord(k - 1)

\* The lines of q one after the other, nothing between.
RECURSIVE Concat(_)
Concat(q) == IF q = <<>> THEN "" ELSE Head(q) \o Concat(Tail(q))

\* The lines fed since the most recent call that returned a record, as one
\* text.
Pending == Concat(SubSeq(fed, LastRecord(Len(rets)) + 1, Len(fed)))

\* The call just made, fed l with the buffer b not empty, did not decode l
\* on its own: it appended l, and returned a record only as the decode of b
\* with l, leaving "no record yet" otherwise.
AppendedTo(b, l) ==
  \/ ret' = Ok(None) /\ buf' = b \o l /\ ~is_valid_json(b \o l)
  \/ ret' = Ok(Some(from_str(b \o l).val)) /\ from_str(b \o l).ok /\ buf' = ""

\* C15: as long as no call has returned an error, the buffer is the lines fed
\* since the most recent call that returned a record, one after the other and
\* nothing else; and a call fed a line that is well-formed JSON by itself
\* while the buffer is not empty appends it instead of decoding it alone.
C15_BufferIsPendingLines ==
  /\ [](AllOk => buf = Pending)
  /\ [][(/\ Len(fed') = Len(fed) + 1
         /\ AllOk
         /\ ret'.ok
         /\ buf # ""
         /\ is_valid_json(fed'[Len(fed')]))
          => AppendedTo(buf, fed'[Len(fed')])]_vars

C15_Witness ==
  /\ fed = <<Line3, Line1, Line3>>
  /\ rets = <<Ok(Some(Record(2, <<"a", "n", "n">>))), Ok(None), Ok(None)>>
  /\ buf = Line1 \o Line3

\* C16: after a call that returned without error the buffer is not
\* well-formed JSON (it is empty, or text that is_valid_json rejects); the
\* buffer is well-formed JSON only right after a call that returned an error.
C16_BufferNotWellFormed ==
  /\ ret.ok => ~is_valid_json(buf)
  /\ is_valid_json(buf) =>
       /\ rets # <<>>
       /\ ~rets[Len(rets)].ok
       /\ ~from_str(buf).ok

C16_Witness ==
  /\ fed = <<Line1, "\"name\": 5}", "}">>
  /\ rets = <<Ok(None), Err("data"), Ok(None)>>
  /\ buf = "{\"id\": 1,\"name\": 5}}"

\* C17: an event that is not Records, and a Records event with no payload
\* or an empty one (the only payload without lines), leaves the buffer and
\* the output as they are; the output changes only in a call that returns a
\* record, and then by that one record added at its end.
C17_OutputOnlyAppended ==
  [][/\ (pc = "recv" /\ pc' = "recv") =>
          (buf' = buf /\ processed_records' = processed_records)
     /\ (pc = "lines" /\ ret'.ok /\ ret'.val.some) =>
          processed_records' = Append(processed_records, ret'.val.val)
     /\ processed_records' # processed_records =>
          /\ pc = "lines"
          /\ ret'.ok /\ ret'.val.some
          /\ processed_records' = Append(processed_records, ret'.val.val)]_vars

C17_Witness ==
  /\ pc = "recv"
  /\ delivered < Len(stream)
  /\ Len(processed_records) = 2
  /\ ret = Ok(Some(processed_records[2]))
  /\ processed_records[1] # processed_records[2]

=============================================================================
